---- MODULE Spec2Model ----
(***************************************************************************)
(* QRCodesSpatialContext (alvr/client_openxr, spatial_marker_tracking.rs): *)
(* the per-frame poll() state machine that bootstraps a spatial context,   *)
(* schedules discovery snapshots, falls back to update snapshots, queries  *)
(* the marker components, caches entity labels and returns (label, pose)   *)
(* pairs.  The OpenXR runtime is the environment: every runtime call's     *)
(* return code, the readiness of futures and the scene are inputs.         *)
(*                                                                         *)
(* The fixed query buffers (entity_ids, entity_states, bounded_2d_arr,     *)
(* marker_arr, string_buffer) are overwritten by the runtime up to the     *)
(* reported count before poll reads them, and poll never reads past that   *)
(* count, so they appear here as the batch a query returns.  The scene     *)
(* holds fewer markers than MAX_MARKERS_COUNT and labels shorter than the  *)
(* string buffer.  Time is counted in seconds.                             *)
(***************************************************************************)
EXTENDS Integers, Sequences, FiniteSets

\* ------------------------------------------------------------- bounds
MaxTime == 3       \* seconds a run of the scheduling specification lasts
MaxPauses == 2     \* pauses in a run of the scene specification
NumPoses == 2      \* poses a marker may take

\* ---------------------------------------------------------- constants
DISCOVERY_TIMEOUT == 1

SPATIAL_CAPABILITY == "MARKER_TRACKING_QR_CODE"
OTHER_CAPABILITY == "MARKER_TRACKING_ARUCO_MARKER"
NULL == "NULL"

\* Label payloads as bytes: "ABC123" and "XYZ999" (the two markers of the
\* scene), and a payload that is not UTF-8 (a lead byte without its
\* continuation byte).
ABC123 == <<65, 66, 67, 49, 50, 51>>
XYZ999 == <<88, 89, 90, 57, 57, 57>>
BAD_UTF8 == <<195, 40>>
Payloads == <<ABC123, XYZ999>>
EntityIds == DOMAIN Payloads
Poses == 1..NumPoses

VARIABLES
  codes_to_track,               \* HashSet<String> given to new()
  context_state,                \* "Creating" | "Ready"
  create_future,                \* runtime status of the Creating(future)
  handle,                       \* SpatialContextReadyData.handle
  discovery_snapshot_future,    \* Option<FutureEXT>: {} or {id}
  spatial_entities,             \* entity id -> <<label, entity handle>>
  discovery_timeout_deadline,   \* Instant
  now,                          \* Instant::now()
  rt_creation,                  \* runtime: creation futures issued, not completed
  rt_discovery,                 \* runtime: discovery future id -> status
  scene,                        \* runtime: entity id -> what the scene holds
  dropped,                      \* the object has been dropped
  context_destroy_calls,        \* calls of destroy_spatial_context
  last,                         \* what the poll that just returned did
  last_invoke_at,               \* time of the last async discovery call
  last_issue_at,                \* time of the last accepted one
  returned                      \* the list last returned for this scene

vars == <<codes_to_track, context_state, create_future, handle,
          discovery_snapshot_future, spatial_entities,
          discovery_timeout_deadline, now, rt_creation, rt_discovery, scene,
          dropped, context_destroy_calls, last, last_invoke_at,
          last_issue_at, returned>>

\* ------------------------------------------------------------ helpers
RECURSIVE SortedSeq(_)
SortedSeq(S) ==
  IF S = {} THEN <<>>
  ELSE LET m == CHOOSE x \in S : \A y \in S : x <= y
       IN <<m>> \o SortedSeq(S \ {m})

Range(s) == {s[i] : i \in DOMAIN s}

\* ------------------------------------------------- the runtime's scene
Absent ==
  [present |-> FALSE, state |-> "STOPPED", capability |-> SPATIAL_CAPABILITY,
   buffer_id |-> NULL, buffer_type |-> "STRING", bytes |-> <<>>, center |-> 1]

Trackable(e, p) ==
  [present |-> TRUE, state |-> "TRACKING", capability |-> SPATIAL_CAPABILITY,
   buffer_id |-> "buffer", buffer_type |-> "STRING", bytes |-> Payloads[e],
   center |-> p]

\* What the scene may hold for entity e: nothing, a trackable marker at any
\* pose, or a marker that differs from a trackable one in one field.
EntityData(e) ==
  {Absent} \cup {Trackable(e, p) : p \in Poses}
  \cup {[Trackable(e, 1) EXCEPT !.state = "PAUSED"],
        [Trackable(e, 1) EXCEPT !.state = "STOPPED"],
        [Trackable(e, 1) EXCEPT !.capability = OTHER_CAPABILITY],
        [Trackable(e, 1) EXCEPT !.buffer_id = NULL],
        [Trackable(e, 1) EXCEPT !.buffer_type = "UINT8"],
        [Trackable(e, 1) EXCEPT !.bytes = BAD_UTF8]}

HandleOf(id) == <<"entity", id>>

Entry(id, m) ==
  [id |-> id, state |-> m.state, capability |-> m.capability,
   buffer_id |-> m.buffer_id, buffer_type |-> m.buffer_type,
   bytes |-> m.bytes, center |-> m.center]

\* query_spatial_component_data on a snapshot: a discovery snapshot holds
\* every entity of the scene, an update snapshot the entities it was scoped
\* to (one that left the scene is reported as stopped), a null handle none.
QueryBatch(snap, scope, sc) ==
  LET ids == CASE snap = "discovery" -> {e \in EntityIds : sc[e].present}
               [] snap = "update" -> {e \in EntityIds : HandleOf(e) \in scope}
               [] OTHER -> {}
      order == SortedSeq(ids)
  IN [i \in 1..Len(order) |-> Entry(order[i], sc[order[i]])]

\* ---------------------------------------------------- label decoding
\* CStr::from_ptr: the bytes before the first NUL.
RECURSIVE CStrBytes(_)
CStrBytes(buf) ==
  IF buf = <<>> \/ Head(buf) = 0 THEN <<>>
  ELSE <<Head(buf)>> \o CStrBytes(Tail(buf))

IsContinuation(b) == b \in 128..191

\* The values the byte after lead byte b may take (no overlong forms, no
\* surrogates, nothing above U+10FFFF).
SecondByte(b) ==
  CASE b = 224 -> 160..191
    [] b = 237 -> 128..159
    [] b = 240 -> 144..191
    [] b = 244 -> 128..143
    [] OTHER -> 128..191

\* The length of the sequence lead byte b starts; 0 when b starts none.
SequenceLength(b) ==
  CASE b < 128 -> 1
    [] b \in 194..223 -> 2
    [] b \in 224..239 -> 3
    [] b \in 240..244 -> 4
    [] OTHER -> 0

\* CStr::to_str: the bytes are valid UTF-8.
RECURSIVE Utf8Valid(_)
Utf8Valid(bytes) ==
  IF bytes = <<>> THEN TRUE
  ELSE LET n == SequenceLength(Head(bytes)) IN
       /\ n > 0
       /\ Len(bytes) >= n
       /\ n >= 2 => bytes[2] \in SecondByte(Head(bytes))
       /\ \A i \in 3..n : IsContinuation(bytes[i])
       /\ Utf8Valid(SubSeq(bytes, n + 1, Len(bytes)))

\* get_spatial_buffer_string writes the payload and its terminating NUL.
StringBuffer(bytes) == bytes \o <<0>>

\* ------------------------------------------- inputs of one poll call
\* The runtime call that returns a failure code in this poll, if it is
\* reached (<<"none", 0>>: none does); entity calls name their entity.
FailPoints ==
  {<<c, 0>> : c \in {"none", "check_future", "create_spatial_context_complete",
                     "create_spatial_discovery_snapshot_complete",
                     "create_spatial_discovery_snapshot_async",
                     "query_phase1", "query_phase2",
                     "destroy_spatial_snapshot"}}
  \cup {<<c, e>> : c \in {"get_spatial_buffer_string",
                          "create_spatial_entity_from_id"}, e \in EntityIds}

\* super::check_future: Ok(true) when the future is ready, Ok(false) when
\* it is pending, Err when the runtime call fails.
CheckFuture(status, fails) ==
  IF fails \/ status = "invalid" THEN "err"
  ELSE IF status = "pending" THEN "false" ELSE "true"

\* What a poll did and returned; NoObs once the caller has taken the result.
NoObs ==
  [start |-> "none", kind |-> "nopoll", failed |-> {}, error |-> "none",
   error_entity |-> {}, snap |-> "none", discovery_completed |-> {},
   update_requested |-> FALSE, update_scope |-> {}, async_invoked |-> FALSE,
   async_accepted |-> FALSE, invoke_gap |-> {}, issue_gap |-> {},
   context_completed |-> FALSE, queried |-> {},
   destroy_calls |-> 0, batch |-> <<>>, out |-> <<>>, out_ids |-> <<>>,
   fetched |-> <<>>, inserted |-> {}, created |-> {}, known |-> {},
   before |-> [future |-> {}, status |-> {}, deadline |-> 0,
               cache |-> [id \in {} |-> <<>>]]]

Failure(obs, call) ==
  [obs EXCEPT !.kind = "err", !.error = call, !.failed = @ \cup {call}]

\* ------------------------------------------------ poll, state Creating
NewReadyData(h) ==
  [handle |-> h, discovery_snapshot_future |-> {},
   spatial_entities |-> [id \in {} |-> <<>>]]

\* Mutant: the result of the creation future is not looked at.
ContextCreatedUnchecked(status) == TRUE

\* Mutant: no creation result counts as success.
ContextCreatedNever(status) == FALSE

\* Line 129: completion.future_result is SUCCESS.
ContextCreated(status) == status = "ready_ok"

\* --------------------------------------------------- poll, state Ready
\* Mutant: a discovery is requested whether or not one is outstanding.
MayRequestDiscoveryAlways(fut) == TRUE

\* Lines 163, 196: no discovery future is outstanding.
MayRequestDiscovery(fut) == fut = {}

\* Line 188: completion.future_result is SUCCESS.
SnapshotCreated(status) == status = "ready_ok"

\* Line 197: the deadline has passed.
DeadlinePassed(t, deadline) == t > deadline

\* Mutant: the deadline is set to the time of the request.
NextDeadlineNow(t) == t

\* Line 218: the deadline after a request at time t.
NextDeadline(t) == t + DISCOVERY_TIMEOUT

WithFuture(rt, id) ==
  [f \in DOMAIN rt \cup {id} |-> IF f = id THEN "pending" ELSE rt[f]]

WithoutFuture(rt, id) == [f \in DOMAIN rt \ {id} |-> rt[f]]

\* What the runtime says of a future: one it has completed is invalid.
FutureStatus(rt, fut) ==
  {IF f \in DOMAIN rt THEN rt[f] ELSE "invalid" : f \in fut}

\* Mutant: the ready future stays in its slot.
TakeFutureKeeps(d) == d

\* Line 166: the slot is emptied before the completion is attempted.
TakeFuture(d) == [d EXCEPT !.discovery_snapshot_future = {}]

\* Mutant: the deadline moves on although the request was refused.
DeadlineAfterRefusalMoves(t, deadline) == t + DISCOVERY_TIMEOUT

\* Lines 205-214: a refused request returns before line 218 is reached.
DeadlineAfterRefusal(t, deadline) == deadline

\* Lines 163-222: complete the outstanding discovery future if it is
\* ready, or request a discovery snapshot once the deadline has passed.
\* The future requested at time t is named t.
DiscoveryStage(st, t, fail) ==
  LET fut == st.d.discovery_snapshot_future
      id == CHOOSE f \in fut : TRUE
      status == CHOOSE x \in FutureStatus(st.rt, fut) : TRUE
      checked ==
        IF fut = {} THEN st
        ELSE
          LET chk == CheckFuture(status, fail = <<"check_future", 0>>) IN
          IF chk = "err" THEN [st EXCEPT !.obs = Failure(@, "check_future")]
          ELSE IF chk = "false" THEN st
          ELSE
            LET cleared ==
                  [st EXCEPT !.d = TakeFuture(@),
                             !.rt = WithoutFuture(@, id),
                             !.obs.discovery_completed = {id}]
            IN IF fail = <<"create_spatial_discovery_snapshot_complete", 0>>
               THEN [cleared EXCEPT !.obs =
                       Failure(@, "create_spatial_discovery_snapshot_complete")]
               ELSE IF ~SnapshotCreated(status)
               THEN [cleared EXCEPT !.obs.kind = "err",
                                    !.obs.error = "future_result"]
               ELSE [cleared EXCEPT !.obs.snap = "discovery"]
  IN IF checked.obs.kind = "err"
        \/ ~(MayRequestDiscovery(fut) /\ DeadlinePassed(t, st.deadline))
     THEN checked
     ELSE IF fail = <<"create_spatial_discovery_snapshot_async", 0>>
     THEN [checked EXCEPT
             !.deadline = DeadlineAfterRefusal(t, @),
             !.obs = [Failure(@, "create_spatial_discovery_snapshot_async")
                        EXCEPT !.async_invoked = TRUE]]
     ELSE [checked EXCEPT !.d.discovery_snapshot_future = {t},
                          !.rt = WithFuture(@, t),
                          !.deadline = NextDeadline(t),
                          !.obs.async_invoked = TRUE,
                          !.obs.async_accepted = TRUE]

\* Mutant: an update snapshot is asked for in every cycle.
NeedsUpdateSnapshotAlways(snap) == TRUE

\* Mutant: no update snapshot is asked for.
NeedsUpdateSnapshotNever(snap) == FALSE

\* Line 227: the discovery step left no snapshot.
NeedsUpdateSnapshot(snap) == snap = "none"

\* Mutant: the update is asked for no entity.
UpdateScopeEmpty(cache) == {}

\* Lines 230-234: the persistent handles of the cached entities.
UpdateScope(cache) == {cache[id][2] : id \in DOMAIN cache}

\* Lines 227-256: without a discovery snapshot, ask for an update snapshot
\* of the cached entities.  The call's return code is not looked at: when
\* it fails the handle stays SpatialSnapshotEXT::NULL.
UpdateStage(st, updateFails) ==
  IF st.obs.kind = "err" \/ ~NeedsUpdateSnapshot(st.obs.snap) THEN st
  ELSE
    LET entities == UpdateScope(st.d.spatial_entities)
        requested == [st EXCEPT !.obs.update_requested = TRUE,
                                !.obs.update_scope = entities]
    IN IF updateFails
       THEN [requested EXCEPT
               !.obs.failed = @ \cup {"create_spatial_update_snapshot"},
               !.obs.snap = NULL]
       ELSE [requested EXCEPT !.obs.snap = "update"]

\* Lines 258-306: the two query_spatial_component_data calls.
QueryStage(st, sc, fail) ==
  IF st.obs.kind = "err" THEN st
  ELSE
    LET asked == [st EXCEPT !.obs.queried = {st.obs.snap}] IN
    IF fail = <<"query_phase1", 0>>
    THEN [asked EXCEPT !.obs = Failure(@, "query_phase1")]
    ELSE IF fail = <<"query_phase2", 0>>
    THEN [asked EXCEPT !.obs = Failure(@, "query_phase2")]
    ELSE [asked EXCEPT
            !.obs.batch = QueryBatch(st.obs.snap, st.obs.update_scope, sc)]

\* Mutant: the tracking state is not looked at.
SkipEntryAnyState(m) ==
  \/ m.capability # SPATIAL_CAPABILITY
  \/ m.buffer_id = NULL
  \/ m.buffer_type # "STRING"

\* Lines 310-316: the entity at this index is skipped.
SkipEntry(m) ==
  \/ m.state # "TRACKING"
  \/ m.capability # SPATIAL_CAPABILITY
  \/ m.buffer_id = NULL
  \/ m.buffer_type # "STRING"

\* Mutant: the cache is not looked up.
IsCachedNever(cache, id) == FALSE

\* Lines 330-333: the label is taken from the cache.
IsCached(cache, id) == id \in DOMAIN cache

\* Mutant: every decoded label is kept.
PassesFilterAlways(codes, string) == TRUE

\* Line 358: the decoded label is one to keep.
PassesFilter(codes, string) == codes = {} \/ string \in codes

\* Mutant: an insertion starts the cache afresh.
InsertedAlone(cache, id, string) ==
  [k \in {id} |-> <<string, HandleOf(id)>>]

\* Mutant: a label that does not decode only skips its entity.
DecodeFailureSkips(obs, m) == obs

\* Lines 353-356: a label that does not decode ends the poll with an error.
DecodeFailure(obs, m) ==
  [obs EXCEPT !.kind = "err", !.error = "to_str", !.error_entity = {m.id}]

Inserted(cache, id, string) ==
  [k \in DOMAIN cache \cup {id} |->
     IF k = id THEN <<string, HandleOf(id)>> ELSE cache[k]]

Pushed(obs, m, string) ==
  [obs EXCEPT !.out = Append(@, <<string, m.center>>),
              !.out_ids = Append(@, m.id)]

\* Lines 328-383: one entity that was not skipped.
ProcessEntry(st, m, codes, fail) ==
  LET cache == st.d.spatial_entities IN
  IF IsCached(cache, m.id)
  THEN [st EXCEPT !.obs = Pushed(@, m, cache[m.id][1])]
  ELSE
    LET fetching == [st EXCEPT !.obs.fetched = Append(@, m.id)]
        buffer == StringBuffer(m.bytes)
        string == CStrBytes(buffer)
    IN IF fail = <<"get_spatial_buffer_string", m.id>>
       THEN [fetching EXCEPT
               !.obs = [Failure(@, "get_spatial_buffer_string")
                          EXCEPT !.error_entity = {m.id}]]
       ELSE IF ~Utf8Valid(string)
       THEN [fetching EXCEPT !.obs = DecodeFailure(@, m)]
       ELSE IF ~PassesFilter(codes, string)
       THEN [fetching EXCEPT !.obs = Pushed(@, m, string)]
       ELSE IF fail = <<"create_spatial_entity_from_id", m.id>>
       THEN [fetching EXCEPT
               !.obs = [Failure(@, "create_spatial_entity_from_id")
                          EXCEPT !.error_entity = {m.id}]]
       ELSE [fetching EXCEPT
               !.d.spatial_entities = Inserted(@, m.id, string),
               !.obs = [Pushed(@, m, string)
                          EXCEPT !.inserted = @ \cup {m.id},
                                 !.created = @ \cup {HandleOf(m.id)}]]

\* Lines 308-384: the loop over the queried entries; an error ends it.
RECURSIVE ProcessEntries(_, _, _, _)
ProcessEntries(st, idx, codes, fail) ==
  IF st.obs.kind = "err" \/ idx > Len(st.obs.batch) THEN st
  ELSE LET m == st.obs.batch[idx] IN
       IF SkipEntry(m) THEN ProcessEntries(st, idx + 1, codes, fail)
       ELSE ProcessEntries(ProcessEntry(st, m, codes, fail), idx + 1,
                           codes, fail)

\* Lines 386-392: destroy the snapshot and return the list.
DestroyStage(st, fail) ==
  IF st.obs.kind = "err" THEN st
  ELSE
    LET destroyed == [st EXCEPT !.obs.destroy_calls = @ + 1] IN
    IF fail = <<"destroy_spatial_snapshot", 0>>
    THEN [destroyed EXCEPT !.obs = Failure(@, "destroy_spatial_snapshot")]
    ELSE [destroyed EXCEPT !.obs.kind = "list"]

\* Lines 162-392: poll with the context Ready.  st holds the ready data d,
\* the deadline, the runtime's discovery futures rt and the observation.
PollReady(st, t, sc, codes, fail, updateFails) ==
  LET s1 == DiscoveryStage(st, t, fail)
      s2 == UpdateStage(s1, updateFails)
      s3 == QueryStage(s2, sc, fail)
      s4 == ProcessEntries(s3, 1, codes, fail)
  IN DestroyStage(s4, fail)

\* Mutant: the poll that built the Ready state goes on to the snapshots.
TransitionFrameGoesOn(st, t, sc, codes, fail, updateFails) ==
  PollReady(st, t, sc, codes, fail, updateFails)

\* Line 158: the poll that built the Ready state returns Ok(None).
TransitionFrame(st, t, sc, codes, fail, updateFails) ==
  [st EXCEPT !.obs.kind = "none"]

\* Lines 114-159: poll with the context Creating.
PollCreating(st, status, t, sc, codes, fail, updateFails) ==
  LET chk == CheckFuture(status, fail = <<"check_future", 0>>) IN
  IF chk = "err" THEN [st EXCEPT !.obs = Failure(@, "check_future")]
  ELSE IF chk = "false" THEN [st EXCEPT !.obs.kind = "none"]
  ELSE
    LET called == [st EXCEPT !.obs.context_completed = TRUE] IN
    IF fail = <<"create_spatial_context_complete", 0>>
    THEN [called EXCEPT !.obs = Failure(@, "create_spatial_context_complete")]
    ELSE IF ~ContextCreated(status)
    THEN [called EXCEPT !.obs.kind = "err", !.obs.error = "future_result"]
    ELSE TransitionFrame([called EXCEPT !.state = "Ready",
                                        !.d = NewReadyData("context")],
                         t, sc, codes, fail, updateFails)

\* Mutant: every poll takes the Creating arm.
InCreatingAlways(state) == TRUE

\* Line 113: the match arm ContextState::Creating.
InCreating(state) == state = "Creating"

\* Mutant: drop destroys the context in any state.
DropDestroysContextAlways(state) == TRUE

\* Line 398: drop destroys the context of a Ready state.
DropDestroysContext(state) == state = "Ready"

\* ------------------------------------------------------------ actions
\* new() has returned: the creation future is outstanding, the deadline is
\* the time of construction.
Construct ==
  /\ codes_to_track \in {{}, {ABC123}}
  /\ context_state = "Creating"
  /\ create_future = "pending"
  /\ handle = NULL
  /\ discovery_snapshot_future = {}
  /\ spatial_entities = [id \in {} |-> <<>>]
  /\ discovery_timeout_deadline = 0
  /\ now = 0
  /\ rt_creation = {"create_context_future"}
  /\ rt_discovery = [f \in {} |-> "pending"]
  /\ dropped = FALSE
  /\ context_destroy_calls = 0
  /\ last = NoObs
  /\ last_invoke_at = {}
  /\ last_issue_at = {}
  /\ returned = {}

Init ==
  /\ Construct
  /\ scene = [e \in EntityIds |-> Absent]

\* The four validation checks, as the specification words them.
FailsValidation(m) ==
  \/ m.state # "TRACKING"
  \/ m.capability # SPATIAL_CAPABILITY
  \/ m.buffer_id = NULL
  \/ m.buffer_type # "STRING"

\* Every marker of the scene that passes validation is among `known`.
Steady(known) ==
  \A e \in EntityIds :
    (scene[e].present /\ ~FailsValidation(scene[e])) => e \in known

\* The time since the event last seen at `at`, if there was one.
Gap(happens, at, t) == IF happens THEN {t - a : a \in at} ELSE {}

\* One call of poll(base_space, time) in which the runtime fails the call
\* `fail` and, if updateFails, create_spatial_update_snapshot.
PollWith(fail, updateFails) ==
  /\ ~dropped
  /\ last = NoObs
  /\   LET st == [state |-> context_state,
                  d |-> [handle |-> handle,
                         discovery_snapshot_future |-> discovery_snapshot_future,
                         spatial_entities |-> spatial_entities],
                  deadline |-> discovery_timeout_deadline,
                  rt |-> rt_discovery,
                  obs |-> [NoObs EXCEPT !.start = context_state,
                                        !.kind = "running",
                                        !.known = DOMAIN spatial_entities,
                                        !.before =
                    [future |-> discovery_snapshot_future,
                     status |-> FutureStatus(rt_discovery,
                                             discovery_snapshot_future),
                     deadline |-> discovery_timeout_deadline,
                     cache |-> spatial_entities]]]
           res == IF InCreating(context_state)
                  THEN PollCreating(st, create_future, now, scene,
                                    codes_to_track, fail, updateFails)
                  ELSE PollReady(st, now, scene, codes_to_track, fail,
                                 updateFails)
       IN /\ context_state' = res.state
          /\ handle' = res.d.handle
          /\ discovery_snapshot_future' = res.d.discovery_snapshot_future
          /\ spatial_entities' = res.d.spatial_entities
          /\ discovery_timeout_deadline' = res.deadline
          /\ rt_discovery' = res.rt
          /\ rt_creation' =
               IF /\ res.obs.context_completed
                  /\ "create_spatial_context_complete" \notin res.obs.failed
               THEN {} ELSE rt_creation
          /\ last' =
               [res.obs EXCEPT
                  !.invoke_gap = Gap(res.obs.async_invoked, last_invoke_at, now),
                  !.issue_gap = Gap(res.obs.async_accepted, last_issue_at, now)]
          /\ last_invoke_at' =
               IF res.obs.async_invoked THEN {now} ELSE last_invoke_at
          /\ last_issue_at' =
               IF res.obs.async_accepted THEN {now} ELSE last_issue_at
  /\ UNCHANGED <<codes_to_track, create_future, now, scene, dropped,
                 context_destroy_calls, returned>>

\* One call of poll(base_space, time).
Poll == \E fail \in FailPoints, updateFails \in BOOLEAN :
          PollWith(fail, updateFails)

\* The caller takes what poll returned; a list read from a snapshot is
\* remembered until the scene changes.
Return ==
  /\ last # NoObs
  /\ last' = NoObs
  /\ returned' = IF last.kind = "list" /\ last.snap # NULL
                 THEN {[out |-> last.out, steady |-> Steady(last.known)]}
                 ELSE returned
  /\ UNCHANGED <<codes_to_track, context_state, create_future, handle,
                 discovery_snapshot_future, spatial_entities,
                 discovery_timeout_deadline, now, rt_creation, rt_discovery,
                 scene, dropped, context_destroy_calls, last_invoke_at,
                 last_issue_at>>

\* Drop for QRCodesSpatialContext.
Drop ==
  /\ ~dropped
  /\ last = NoObs
  /\ dropped' = TRUE
  /\ context_destroy_calls' =
       IF DropDestroysContext(context_state)
       THEN context_destroy_calls + 1 ELSE context_destroy_calls
  /\ UNCHANGED <<codes_to_track, context_state, create_future, handle,
                 discovery_snapshot_future, spatial_entities,
                 discovery_timeout_deadline, now, rt_creation, rt_discovery,
                 scene, last, last_invoke_at, last_issue_at, returned>>

\* Time passes: `step` seconds, within a run of `limit` seconds.
Elapse(step, limit) ==
  /\ ~dropped
  /\ last = NoObs
  /\ now + step <= limit
  /\ now' = now + step
  /\ UNCHANGED <<codes_to_track, context_state, create_future, handle,
                 discovery_snapshot_future, spatial_entities,
                 discovery_timeout_deadline, rt_creation, rt_discovery, scene,
                 dropped, context_destroy_calls, last, last_invoke_at,
                 last_issue_at, returned>>

\* A second passes.
Tick == Elapse(1, MaxTime)

\* A pause between two polls that outlasts the discovery timeout.
Pause ==
  Elapse(DISCOVERY_TIMEOUT + 1, MaxPauses * (DISCOVERY_TIMEOUT + 1))

\* The runtime finishes the context creation, with success or failure.
CreationFinishes ==
  /\ ~dropped
  /\ last = NoObs
  /\ create_future = "pending"
  /\ create_future' \in {"ready_ok", "ready_fail"}
  /\ UNCHANGED <<codes_to_track, context_state, handle,
                 discovery_snapshot_future, spatial_entities,
                 discovery_timeout_deadline, now, rt_creation, rt_discovery,
                 scene, dropped, context_destroy_calls, last, last_invoke_at,
                 last_issue_at, returned>>

\* The runtime finishes a discovery, with success or failure.
DiscoveryFinishes ==
  /\ ~dropped
  /\ last = NoObs
  /\ \E f \in DOMAIN rt_discovery, status \in {"ready_ok", "ready_fail"} :
       /\ rt_discovery[f] = "pending"
       /\ rt_discovery' = [rt_discovery EXCEPT ![f] = status]
  /\ UNCHANGED <<codes_to_track, context_state, create_future, handle,
                 discovery_snapshot_future, spatial_entities,
                 discovery_timeout_deadline, now, rt_creation, scene, dropped,
                 context_destroy_calls, last, last_invoke_at, last_issue_at, returned>>

\* A marker enters, leaves, moves or changes in the scene.
SceneChanges ==
  /\ ~dropped
  /\ last = NoObs
  /\ \E e \in EntityIds : \E m \in EntityData(e) :
       /\ scene[e] # m
       /\ scene' = [scene EXCEPT ![e] = m]
  /\ returned' = {}
  /\ UNCHANGED <<codes_to_track, context_state, create_future, handle,
                 discovery_snapshot_future, spatial_entities,
                 discovery_timeout_deadline, now, rt_creation, rt_discovery,
                 dropped, context_destroy_calls, last, last_invoke_at,
                 last_issue_at>>

\* The scene specification: any scene, time passing in pauses.
Next ==
  \/ Poll
  \/ Return
  \/ Drop
  \/ Pause
  \/ CreationFinishes
  \/ DiscoveryFinishes
  \/ SceneChanges

Spec == Init /\ [][Next]_vars

\* The scheduling specification: time passing second by second, over a
\* scene that stays as it is, two trackable markers.
InitSchedule ==
  /\ Construct
  /\ scene \in {[e \in EntityIds |-> Trackable(e, p)] : p \in Poses}

NextSchedule ==
  \/ Poll
  \/ Return
  \/ Drop
  \/ Tick
  \/ CreationFinishes
  \/ DiscoveryFinishes

SpecSchedule == InitSchedule /\ [][NextSchedule]_vars

\* The progress specification: the host goes on polling and never drops
\* the context, the caller takes every result, and again and again a poll
\* happens in which no runtime call fails.
PollSucceeding == PollWith(<<"none", 0>>, FALSE)

\* poll can be called: its guard.  Every call returns and leaves its
\* result in `last`, so this is ENABLED <<PollSucceeding>>_vars.
PollEnabled == ~dropped /\ last = NoObs

\* SF_vars(PollSucceeding), with PollEnabled written for the ENABLED.
PollSucceedsAgainAndAgain ==
  <>[]~PollEnabled \/ []<><<PollSucceeding>>_vars

NextProgress ==
  \/ Poll
  \/ Return
  \/ Tick
  \/ CreationFinishes
  \/ DiscoveryFinishes

SpecProgress ==
  /\ InitSchedule
  /\ [][NextProgress]_vars
  /\ WF_vars(Return)
  /\ PollSucceedsAgainAndAgain

\* ------------------------------------------------------------- claims
FailingIds(batch) ==
  {batch[i].id : i \in {j \in DOMAIN batch : FailsValidation(batch[j])}}

PassingIds(batch) ==
  {batch[i].id : i \in {j \in DOMAIN batch : ~FailsValidation(batch[j])}}

Labels(out) == {out[i][1] : i \in DOMAIN out}

\* C1: a poll that acquired a snapshot (discovery or update) has called
\* destroy-snapshot on it exactly once when it returns, on every exit path.
C1_SnapshotDestroyedOnce ==
  last.snap \in {"discovery", "update"} => last.destroy_calls = 1

\* C2: with a non-empty allow-set every returned label is in the allow-set;
\* with an empty allow-set every validated entity's label is returned.
C2_OutputWithinAllowSet ==
  last.kind = "list" =>
    /\ codes_to_track # {} => Labels(last.out) \subseteq codes_to_track
    /\ codes_to_track = {} =>
         Range(last.out_ids) = PassingIds(last.batch)

\* C3: a poll that starts in Creating never returns a list: it returns "no
\* data yet" when the creation future is pending, and also on the poll that
\* builds the Ready state.
C3_NoListWhileCreating ==
  last.start = "Creating" =>
    /\ last.kind \in {"none", "err"}
    /\ (create_future = "pending" /\ last.failed = {}) => last.kind = "none"
    /\ context_state = "Ready" => last.kind = "none"

C3_Witness ==
  /\ last.start = "Creating"
  /\ context_state = "Ready"
  /\ last.kind = "none"

\* C4: a runtime call that returns a failure code aborts the poll with an
\* error, and poll never queries a snapshot whose creation failed.
C4_FailedCallAborts ==
  /\ last.failed # {} => last.kind = "err"
  /\ NULL \notin last.queried

\* C5 (as stated): any two consecutive invocations of the async
\* create-discovery-snapshot call are more than DISCOVERY_TIMEOUT apart.
C5_InvocationsSpaced ==
  \A g \in last.invoke_gap : g > DISCOVERY_TIMEOUT

\* C5 (amended): any two consecutive accepted discovery requests are more
\* than DISCOVERY_TIMEOUT apart, the deadline being the time of the last
\* accepted request plus the timeout, whenever that request completes.
C5_AcceptedRequestsSpaced ==
  /\ \A g \in last.issue_gap : g > DISCOVERY_TIMEOUT
  /\ \A t \in last_issue_at :
       discovery_timeout_deadline = t + DISCOVERY_TIMEOUT

C5_Witness ==
  /\ last.issue_gap # {}
  /\ last.async_accepted

\* C6: at most one creation future and at most one discovery future are
\* outstanding; no poll requests a discovery while one is outstanding.
C6_AtMostOneFutureOfEachKind ==
  /\ rt_creation \subseteq {"create_context_future"}
  /\ Cardinality(DOMAIN rt_discovery) <= 1
  /\ discovery_snapshot_future = DOMAIN rt_discovery

C6_Witness ==
  /\ last.kind = "list"
  /\ last.discovery_completed = {}
  /\ discovery_snapshot_future # {}
  /\ now > discovery_timeout_deadline
  /\ ~last.async_invoked

\* C7: an entity that fails a validation check is not in the output, causes
\* no label fetch, no cache insertion and no error, and the entries after it
\* are still processed and returned.
C7_InvalidEntitySkipped ==
  LET failing == FailingIds(last.batch)
      passing == PassingIds(last.batch)
  IN /\ failing \cap Range(last.out_ids) = {}
     /\ failing \cap Range(last.fetched) = {}
     /\ failing \cap last.inserted = {}
     /\ failing \cap last.error_entity = {}
     /\ last.kind = "list" =>
          passing \cap DOMAIN spatial_entities \subseteq Range(last.out_ids)

C7_Witness ==
  /\ last.kind = "list"
  /\ \E i, j \in DOMAIN last.batch :
       /\ i < j
       /\ FailsValidation(last.batch[i])
       /\ last.batch[j].id \in Range(last.out_ids)

\* C8: when the creation future completes with a failure, the poll returns
\* an error, the state stays Creating, and no later poll returns a list.
C8_CreationFailureStaysCreating ==
  create_future = "ready_fail" =>
    /\ context_state = "Creating"
    /\ handle = NULL
    /\ last.kind \in {"nopoll", "err"}

C8_Witness ==
  /\ create_future = "ready_fail"
  /\ last.error = "future_result"
  /\ last.context_completed

C10_ContextDestroyedOnceIffReady ==
  context_destroy_calls = IF dropped /\ context_state = "Ready" THEN 1 ELSE 0

C10_Witness ==
  /\ dropped
  /\ context_state = "Ready"
  /\ context_destroy_calls = 1

\* C11: when the label fetched for an entity that is not yet in the cache
\* is not valid UTF-8, the whole poll returns an error and no list; the
\* entity is not merely skipped.
C11_UndecodableLabelFailsPoll ==
  \A i \in DOMAIN last.batch :
    (/\ last.batch[i].id \in Range(last.fetched)
     /\ last.batch[i].bytes = BAD_UTF8
     /\ "get_spatial_buffer_string" \notin last.failed)
    => (/\ last.kind = "err"
        /\ last.error = "to_str"
        /\ last.error_entity = {last.batch[i].id})

\* A marker was already in the list when the next label did not decode.
C11_Witness ==
  /\ last.error = "to_str"
  /\ last.kind = "err"
  /\ last.out_ids # <<>>
  /\ \E i \in DOMAIN last.batch :
       last.batch[i].bytes = BAD_UTF8 /\ last.batch[i].id \notin last.known

\* C12: a poll of a Ready context that reaches the query phase queries
\* exactly one snapshot; it asks for an update snapshot exactly when the
\* discovery step of that poll produced no snapshot, and a discovery
\* snapshot it completed is the one it queries.
C12_OneSnapshotSource ==
  (last.start = "Ready" /\ last.queried # {})
  => (/\ Cardinality(last.queried) = 1
      /\ last.update_requested <=> (last.discovery_completed = {})
      /\ last.discovery_completed # {} => last.queried = {"discovery"}
      /\ last.discovery_completed = {} => "discovery" \notin last.queried)

\* A poll completed a discovery, asked for no update and returned a list
\* of two markers read from the discovery snapshot.
C12_Witness ==
  /\ last.start = "Ready"
  /\ last.queried = {"discovery"}
  /\ last.discovery_completed # {}
  /\ ~last.update_requested
  /\ last.kind = "list"
  /\ Len(last.out) = 2

\* C13: every label in the cache passes the filter (an empty allow-set
\* passes all, else the label is in the allow-set); a label that was
\* fetched and decoded but does not pass is not inserted and no
\* persistent entity is created for it.
C13_CacheHoldsAllowedLabels ==
  /\ codes_to_track # {} =>
       \A id \in DOMAIN spatial_entities :
         spatial_entities[id][1] \in codes_to_track
  /\ last.created = {HandleOf(id) : id \in last.inserted}
  /\ \A i \in DOMAIN last.batch :
       (/\ last.batch[i].id \in Range(last.fetched)
        /\ codes_to_track # {}
        /\ last.batch[i].bytes \notin codes_to_track)
       => (/\ last.batch[i].id \notin DOMAIN spatial_entities
           /\ HandleOf(last.batch[i].id) \notin last.created)

\* With a non-empty allow-set one poll cached an allowed label and
\* fetched a label that is not allowed.
C13_Witness ==
  /\ codes_to_track # {}
  /\ last.kind = "list"
  /\ last.inserted # {}
  /\ \E i \in DOMAIN last.batch :
       /\ last.batch[i].id \in Range(last.fetched)
       /\ last.batch[i].bytes = XYZ999
       /\ last.batch[i].id \notin DOMAIN spatial_entities

\* C14: no poll removes a cache entry or changes its label or its
\* persistent entity, whether the entity is missing from the snapshot,
\* fails validation, or the poll ends with an error: every entry the
\* cache held when the poll began is still there, unchanged.
C14_CacheAppendOnly ==
  \A id \in DOMAIN last.before.cache :
    /\ id \in DOMAIN spatial_entities
    /\ spatial_entities[id] = last.before.cache[id]

\* A poll added an entry to a cache holding an entity the scene no
\* longer shows as a tracked marker.
C14_Witness ==
  /\ last.inserted # {}
  /\ \E id \in DOMAIN last.before.cache :
       /\ ~scene[id].present \/ FailsValidation(scene[id])
       /\ id \notin Range(last.out_ids)
       /\ id \in DOMAIN spatial_entities

\* C15: each request for an update snapshot names exactly the persistent
\* entities of the cache as it is when the request is made, one per
\* cached entity; an entity that was never cached is not in its scope.
C15_UpdateScopeIsCache ==
  last.update_requested =>
    /\ last.update_scope =
         {last.before.cache[id][2] : id \in DOMAIN last.before.cache}
    /\ last.update_scope = {HandleOf(id) : id \in last.known}
    /\ Cardinality(last.update_scope) = Cardinality(last.known)
    /\ \A i \in DOMAIN last.batch :
         last.queried = {"update"} => last.batch[i].id \in last.known

\* An update was requested for the one cached entity while the scene
\* held a trackable marker that was never cached.
C15_Witness ==
  /\ last.update_requested
  /\ last.kind = "list"
  /\ Cardinality(last.update_scope) = 1
  /\ Len(last.out) = 1
  /\ \E e \in EntityIds :
       /\ e \notin last.known
       /\ scene[e].present
       /\ ~FailsValidation(scene[e])

\* C16: a poll that finds the outstanding discovery future ready has
\* emptied the future slot when it returns, whether the completion
\* succeeded, failed as a call or delivered a failed result; the runtime
\* no longer holds that future and the slot never names a future that was
\* completed before.  A poll that finds the future pending, or whose
\* readiness check fails, leaves it outstanding.
C16_ReadyFutureCleared ==
  last.start = "Ready" =>
    /\ "invalid" \notin last.before.status
    /\ last.discovery_completed \subseteq last.before.future
    /\ last.discovery_completed # {} =>
         /\ discovery_snapshot_future = {}
         /\ last.discovery_completed \cap DOMAIN rt_discovery = {}
    /\ (/\ last.before.future # {}
        /\ last.before.status \subseteq {"ready_ok", "ready_fail"}
        /\ "check_future" \notin last.failed)
       => last.discovery_completed = last.before.future
    /\ (/\ last.before.future # {}
        /\ last.before.status = {"pending"} \/ "check_future" \in last.failed)
       => /\ last.discovery_completed = {}
          /\ discovery_snapshot_future = last.before.future
          /\ last.before.future \subseteq DOMAIN rt_discovery

\* The completion call of a ready discovery future failed and the slot is
\* empty, after an earlier discovery had filled the cache.
C16_Witness ==
  /\ last.start = "Ready"
  /\ last.discovery_completed # {}
  /\ "create_spatial_discovery_snapshot_complete" \in last.failed
  /\ last.kind = "err"
  /\ discovery_snapshot_future = {}
  /\ last.known # {}

\* C17: a poll that starts with the context Ready leaves it Ready with the
\* same context handle, whatever errors it meets, and does not issue the
\* context-creation completion call; that call is issued only by polls
\* that start in Creating, and the creation future it consumed is gone.
C17_ReadyIsTerminal ==
  /\ last.start = "Ready" =>
       /\ context_state = "Ready"
       /\ handle = "context"
       /\ ~last.context_completed
  /\ last.context_completed => last.start = "Creating"
  /\ context_state = "Ready" => (handle = "context" /\ rt_creation = {})

\* A poll of a Ready context ended with an error and the context is
\* still Ready.
C17_Witness ==
  /\ last.start = "Ready"
  /\ last.kind = "err"
  /\ last.failed # {}
  /\ context_state = "Ready"

\* C18: while the host keeps polling, once the creation future is ready
\* with success the context eventually is Ready, and eventually a poll
\* that starts in Ready reaches the query phase; a poll of a Ready context
\* that meets no error always reaches it.
C18_CreationLeadsToReady ==
  /\ (create_future = "ready_ok") ~> (context_state = "Ready")
  /\ (create_future = "ready_ok") ~>
       (last.start = "Ready" /\ last.queried # {})
  /\ []((last.start = "Ready" /\ last.kind # "err") => last.queried # {})

\* A poll that started in Ready queried a snapshot and returned a list.
C18_Witness ==
  /\ create_future = "ready_ok"
  /\ context_state = "Ready"
  /\ last.start = "Ready"
  /\ last.queried # {}
  /\ last.kind = "list"

\* C19: a poll that starts with the context Ready returns a list or an
\* error, never "no data yet"; when its discovery step yields no snapshot
\* and raises no error it asks for an update snapshot, also in the poll
\* that issues a new discovery request and when the cache is empty, so a
\* returned list always comes after a query.
C19_ReadyPollReturnsListOrError ==
  last.start = "Ready" =>
    /\ last.kind \in {"list", "err"}
    /\ last.kind = "list" =>
         /\ last.queried # {}
         /\ last.update_requested \/ last.discovery_completed # {}
    /\ (last.async_accepted /\ last.discovery_completed = {})
       => last.update_requested

\* The poll that issued a discovery request asked for an update snapshot
\* of an empty cache and returned an empty list.
C19_Witness ==
  /\ last.start = "Ready"
  /\ last.async_accepted
  /\ last.update_requested
  /\ last.update_scope = {}
  /\ last.known = {}
  /\ last.kind = "list"
  /\ last.out = <<>>
  /\ \E e \in EntityIds : scene[e].present /\ ~FailsValidation(scene[e])

\* C20: a poll whose create-discovery-snapshot request the runtime
\* refuses returns an error and leaves the deadline, the (empty) future
\* slot and the cache as they were; the deadline moves and a future is
\* recorded only in a poll whose request was accepted, and then the
\* deadline is the time of the request plus the timeout.
C20_RefusedRequestChangesNothing ==
  /\ (last.async_invoked /\ ~last.async_accepted) =>
       /\ last.kind = "err"
       /\ last.error = "create_spatial_discovery_snapshot_async"
       /\ discovery_timeout_deadline = last.before.deadline
       /\ last.before.future = {}
       /\ discovery_snapshot_future = {}
       /\ spatial_entities = last.before.cache
  /\ (/\ last.start = "Ready"
      /\ \/ discovery_timeout_deadline # last.before.deadline
         \/ discovery_snapshot_future \ last.before.future # {})
     => last.async_accepted
  /\ last.async_accepted =>
       /\ discovery_timeout_deadline = now + DISCOVERY_TIMEOUT
       /\ discovery_snapshot_future # {}
       /\ discovery_snapshot_future \subseteq DOMAIN rt_discovery

\* The runtime refused a request made with a filled cache.
C20_Witness ==
  /\ last.async_invoked
  /\ ~last.async_accepted
  /\ last.kind = "err"
  /\ last.known # {}
  /\ now > discovery_timeout_deadline

====
